---- MODULE Spec2Model ----
(***************************************************************************)
(* Model of the two student pages of npc_smart_report_fn_v2_beta:          *)
(*   - the report submission page  (src/app/student/submit/page.tsx)       *)
(*   - the report list page        (src/unnamed/part_000)                  *)
(* Each page is a React component: its useState cells are the variables,   *)
(* each event handler / effect / promise continuation is one action.       *)
(* Text is modelled as a sequence of characters so that trim() and the     *)
(* JavaScript truthiness of a string are computed, not assumed.            *)
(***************************************************************************)
EXTENDS Integers, Sequences, FiniteSets, TLC

VARIABLES
    localStorage,        \* value stored under "studentEmail" (Null when absent)
    op,                  \* name of the handler / continuation that ran last
    \* ---- submit page (src/app/student/submit/page.tsx) ----
    submitMounted,       \* the mount effects of SubmitPage have run
    items,               \* useState<InspectionItem[]>
    isLoading,           \* useState(true)
    isSubmitting,        \* useState(false)
    generalComment,      \* useState("")
    submitStudentEmail,  \* useState("") of SubmitPage (studentEmail)
    catalogOutcome,      \* how the catalog fetch ended ("none" while running)
    submitReqs,          \* submit requests sent and not yet answered
    submitToast,         \* notification raised by the last submit-page step
    edits,               \* number of form edits made so far (bounded)
    submitOutcome,       \* outcome of the submit request answered last
    editedInFlight,      \* the form was changed while the last request was in flight
    submitsInFlight,     \* number of submit requests sent and not yet handled
    \* ---- list page (src/unnamed/part_000) ----
    listMounted,         \* the mount effects of ReportPage have run
    loading,             \* useState(true)
    reports,             \* useState<Report[]>
    activeFilter,        \* useState<FilterType>('all')
    searchQuery,         \* useState('')
    studentEmail,        \* useState('') of ReportPage
    pagination,          \* useState<PaginationInfo>
    timers,              \* pending setTimeout callbacks of the fetch effect
    listReqs,            \* listing requests sent and not yet answered, oldest first
    lastReq,             \* the listing request issued last (Missing before the first)
    reportToast,         \* notification raised by the last list-page step
    inputs,              \* number of user inputs on the list page so far (bounded)
    cancelled,           \* number of timers cleared before they fired
    newPageArg,          \* argument of the last handlePageChange call
    listOutcome,         \* how the listing response handled last ended
    answered,            \* the listing request whose response was handled last
    \* ---- list page: detail modal ----
    isModalOpen,         \* useState(false)
    selectedReportId,    \* useState<string | null>(null)
    reportDetails,       \* useState<ReportDetail | null>(null), Missing for null
    loadingReportDetails,\* useState(false)
    detailReqs,          \* detail requests sent and not yet answered, oldest first
    detailOutcome,       \* how the detail response handled last ended
    bodyOverflow,        \* document.body.style.overflow
    escapeListener,      \* handleEscape is registered for keydown
    \* ---- list page: downloads ----
    downloadingId,       \* useState<string | null>(null)
    downloadReqs,        \* download requests sent and not yet answered, oldest first
    files,               \* files handed to the browser, in order
    downloadOutcome      \* how the download response handled last ended

submitVars == <<submitMounted, items, isLoading, isSubmitting, generalComment,
                submitStudentEmail, catalogOutcome, submitReqs, submitToast,
                edits, submitOutcome, editedInFlight, submitsInFlight>>

listVars == <<listMounted, loading, reports, activeFilter, searchQuery,
              studentEmail, pagination, timers, listReqs, lastReq,
              reportToast, inputs, cancelled, newPageArg, listOutcome,
              answered>>

modalVars == <<isModalOpen, selectedReportId, reportDetails,
               loadingReportDetails, detailReqs, detailOutcome,
               bodyOverflow, escapeListener>>

downloadVars == <<downloadingId, downloadReqs, files, downloadOutcome>>

reportVars == <<listVars, modalVars, downloadVars>>

vars == <<localStorage, op, submitVars, reportVars>>

----------------------------------------------------------------------------
(* Bounds of the model *)

MaxItems == 2        \* longest catalog the item API returns
MaxEdits == 3        \* form edits per run
MaxInputs == 2       \* user inputs on the list page per run
MaxInFlight == 2     \* listing requests in flight at once
MaxPage == 2         \* largest page number the listing API reports

----------------------------------------------------------------------------
(* Text *)

WhiteSpace == {" "}

EmptyText == <<>>

RECURSIVE TrimStart(_)
TrimStart(s) ==
    IF Len(s) = 0 THEN s
    ELSE IF Head(s) \in WhiteSpace THEN TrimStart(Tail(s)) ELSE s

RECURSIVE TrimEnd(_)
TrimEnd(s) ==
    IF Len(s) = 0 THEN s
    ELSE IF s[Len(s)] \in WhiteSpace THEN TrimEnd(SubSeq(s, 1, Len(s) - 1))
    ELSE s

\* String.prototype.trim
Trim(s) == TrimEnd(TrimStart(s))

\* truthiness of a JavaScript string
Truthy(s) == Len(s) # 0

\* localStorage.getItem("studentEmail") || ""
Null == "<null>"

StoredEmails == {Null, "", "student@npc"}

ReadStoredEmail(v) == IF v = Null \/ v = "" THEN "" ELSE v

\* variant of IdentityMissing: the guard never holds
IdentityMissingNever(email) == FALSE

\* !studentEmail, in fetchReports and in the fetch effect of the list page
IdentityMissing(email) == email = ""

\* !studentEmail, in handleSubmit
NoStudentEmail(email) == email = ""

----------------------------------------------------------------------------
(* Submit page: data *)

Statuses == {"good", "bad", "flagged", "pending"}

Marks == {"good", "bad", "flagged"}

Comments == {EmptyText, <<" ">>, <<"x">>}

GeneralComments == {EmptyText, <<"g">>}

DefaultDescription == "No description provided."

DefaultGeneralComment == "Inspection completed successfully."

\* items of the remote catalog, as GET /api/item/getAllItems returns them
CatalogPool ==
    << [id |-> "a", name |-> "Desk", description |-> "Desk surface"],
       [id |-> "b", name |-> "Door", description |-> ""],
       [id |-> "c", name |-> "Window", description |-> "Window glass"] >>

\* a catalog in which two entries carry the same id: item.id is copied
\* from the response as it comes
DuplicateIdCatalog ==
    << [id |-> "a", name |-> "Desk", description |-> "Desk surface"],
       [id |-> "a", name |-> "Door", description |-> ""] >>

Catalogs == { SubSeq(CatalogPool, 1, n) : n \in 0..MaxItems }
                \cup {DuplicateIdCatalog}

\* data.items.map(item => ({id, name, description || default, "pending", ""}))
ProjectItem(c) ==
    [id |-> c.id, name |-> c.name,
     description |-> IF c.description = "" THEN DefaultDescription
                     ELSE c.description,
     status |-> "pending", comment |-> EmptyText]

ProjectCatalog(cat) == [i \in 1..Len(cat) |-> ProjectItem(cat[i])]

FallbackItem(id, name, description) ==
    [id |-> id, name |-> name, description |-> description,
     status |-> "pending", comment |-> EmptyText]

FallbackItems ==
    << FallbackItem("1", "Classroom Cleanliness",
                    "Overall cleanliness and tidiness of the classroom"),
       FallbackItem("2", "Furniture Condition",
                    "Condition of desks, chairs, and other furniture"),
       FallbackItem("3", "Electrical Safety",
                    "Electrical outlets, switches, and wiring safety"),
       FallbackItem("4", "Lighting System",
                    "Functionality of lights and natural lighting"),
       FallbackItem("5", "Ventilation",
                    "Air quality and ventilation system") >>

\* outcomes of the catalog fetch: the request or res.json() throws, or a body
CatalogResponses ==
    { [kind |-> "throw", success |-> FALSE, isArray |-> FALSE, items |-> <<>>] }
    \cup
    { [kind |-> "body", success |-> s, isArray |-> TRUE, items |-> c] :
        s \in BOOLEAN, c \in Catalogs }
    \cup
    { [kind |-> "body", success |-> s, isArray |-> FALSE, items |-> <<>>] :
        s \in BOOLEAN }

ItemIds(its) == { its[i].id : i \in 1..Len(its) }

\* variant of Stats: every item is counted, whatever its status
StatsCountsAll(its, status) == Len(its)

\* number of items with the given status: stats[status] || 0
Stats(its, status) == Cardinality({ i \in 1..Len(its) : its[i].status = status })

----------------------------------------------------------------------------
(* Submit page: handlers as functions of the item list *)

\* prev.map(item => item.id === itemId ? {...item, status} : item)
SetStatus(its, itemId, status) ==
    [i \in 1..Len(its) |->
        IF its[i].id = itemId THEN [its[i] EXCEPT !.status = status]
        ELSE its[i]]

\* prev.map(item => item.id === itemId ? {...item, comment} : item)
SetComment(its, itemId, comment) ==
    [i \in 1..Len(its) |->
        IF its[i].id = itemId THEN [its[i] EXCEPT !.comment = comment]
        ELSE its[i]]

\* variant of MarkAllGood: the comments are cleared as well
MarkAllGoodClearsComments(its) ==
    [i \in 1..Len(its) |->
        [its[i] EXCEPT !.status = "good", !.comment = EmptyText]]

\* prev.map(item => ({...item, status: "good"}))
MarkAllGood(its) ==
    [i \in 1..Len(its) |-> [its[i] EXCEPT !.status = "good"]]

\* variant of ClearItems: the comments stay
ClearItemsKeepsComments(its) ==
    [i \in 1..Len(its) |-> [its[i] EXCEPT !.status = "pending"]]

\* handleClearSelection:
\* prev.map(item => ({...item, status: "pending", comment: ""}))
ClearItems(its) ==
    [i \in 1..Len(its) |->
        [its[i] EXCEPT !.status = "pending", !.comment = EmptyText]]

\* variant of ResetForm: the comment is not cleared
ResetFormKeepsComments(its) ==
    [i \in 1..Len(its) |-> [its[i] EXCEPT !.status = "pending"]]

\* the form reset of handleSubmit:
\* prev.map(item => ({...item, status: "pending", comment: ""}))
ResetForm(its) ==
    [i \in 1..Len(its) |->
        [its[i] EXCEPT !.status = "pending", !.comment = EmptyText]]

\* variant of ItemsAfterSubmit: the reset placed in the finally block
ItemsAfterSubmitAlwaysReset(its, outcome) == ResetForm(its)

\* the item list after a submit response: reset on data.success only
ItemsAfterSubmit(its, outcome) ==
    IF outcome = "success" THEN ResetForm(its) ELSE its

\* the general comment after a submit response
CommentAfterSubmit(gc, outcome) ==
    IF outcome = "success" THEN EmptyText ELSE gc

\* the notification of a submit response
SubmitNotification(outcome) ==
    IF outcome = "success" THEN "Report Submitted Successfully!"
    ELSE IF outcome = "failure" THEN "Submission Failed"
    ELSE "Network Error"

\* variant of HasUnmarked: every() written for some()
HasUnmarkedEvery(its) == \A i \in 1..Len(its) : its[i].status = "pending"

\* items.some(item => item.status === "pending")
HasUnmarked(its) == \E i \in 1..Len(its) : its[i].status = "pending"

\* (item.status === "bad" || item.status === "flagged") && !item.comment.trim()
NeedsComment(item) ==
    /\ item.status \in {"bad", "flagged"}
    /\ ~Truthy(Trim(item.comment))

\* items.filter(...).length
ItemsNeedingComments(its) ==
    Cardinality({ i \in 1..Len(its) : NeedsComment(its[i]) })

\* variant of ValidationError: the comment check placed before the pending check
ValidationErrorCommentsFirst(its, email) ==
    IF ItemsNeedingComments(its) > 0 THEN "Comments Required"
    ELSE IF HasUnmarked(its) THEN "Incomplete Form"
    ELSE IF NoStudentEmail(email) THEN "Authentication Error"
    ELSE ""

\* the first failing validation of handleSubmit, "" when all pass
ValidationError(its, email) ==
    IF HasUnmarked(its) THEN "Incomplete Form"
    ELSE IF ItemsNeedingComments(its) > 0 THEN "Comments Required"
    ELSE IF NoStudentEmail(email) THEN "Authentication Error"
    ELSE ""

\* the percentage of the progress label, <<>> for NaN:
\* Math.round(((items.length - (stats.pending || 0)) / items.length) * 100)
CompletionPercentage(its) ==
    LET n == Len(its)
        done == Len(its) - Stats(its, "pending")
    IN  IF n = 0 THEN <<>>
        ELSE << (200 * done + n) \div (2 * n) >>

\* body of POST /api/student/report/submit (title and dates left out)
SubmitPayload(its, gc, email) ==
    [reporterEmail |-> email,
     generalComment |-> IF Truthy(gc) THEN gc ELSE DefaultGeneralComment,
     items |-> its,
     summary |-> [totalItems |-> Len(its),
                  goodItems |-> Stats(its, "good"),
                  badItems |-> Stats(its, "bad"),
                  flaggedItems |-> Stats(its, "flagged")],
     category |-> "ONTIME"]

SubmitResponses == {"success", "failure", "throw"}

----------------------------------------------------------------------------
(* List page: data *)

Filters == {"all", "daily", "weekly", "monthly"}

SearchTexts == {EmptyText, <<" ">>, <<"a">>}

DebounceMs == 500

PageLimit == 10

DefaultPagination ==
    [currentPage |-> 1, totalPages |-> 1, totalReports |-> 0,
     hasNext |-> FALSE, hasPrev |-> FALSE]

\* a report list is modelled by the identifiers of its reports
ReportLists == {<<>>, <<"r1", "r2">>}

\* PaginationInfo objects the listing API may send; the page does not
\* validate them
PaginationValues ==
    [currentPage : 1..MaxPage, totalPages : 1..MaxPage,
     totalReports : {PageLimit + 1}, hasNext : BOOLEAN, hasPrev : BOOLEAN]

\* an optional field is a sequence of length 0 (missing) or 1
Missing == <<>>

Present(v) == <<v>>

\* value || fallback, for an optional object or array
OrElse(opt, fallback) == IF Len(opt) = 0 THEN fallback ELSE opt[1]

NoBody == [success |-> FALSE, hasData |-> FALSE,
           reports |-> Missing, pagination |-> Missing]

\* JSON bodies of a 2xx listing response: without data, with data but
\* success false, and successful ones; a successful body with no rows has
\* no pagination object, one with rows has any or none
ListBodies ==
    { [success |-> s, hasData |-> FALSE,
       reports |-> Missing, pagination |-> Missing] : s \in BOOLEAN }
    \cup
    { [success |-> FALSE, hasData |-> TRUE,
       reports |-> Present(r), pagination |-> Missing] : r \in ReportLists }
    \cup
    { [success |-> TRUE, hasData |-> TRUE,
       reports |-> r, pagination |-> Missing] : r \in {Missing, Present(<<>>)} }
    \cup
    [success : {TRUE}, hasData : {TRUE},
     reports : { Present(r) : r \in ReportLists \ {<<>>} },
     pagination : {Missing} \cup { Present(p) : p \in PaginationValues }]

\* outcomes of a listing request: 404, another non-2xx status, a thrown
\* fetch / json(), or a 2xx body
ListResponses ==
    { [kind |-> k, body |-> NoBody] : k \in {"notfound", "error", "throw"} }
    \cup
    { [kind |-> "ok", body |-> b] : b \in ListBodies }

\* the URLSearchParams of fetchReports ("" / EmptyText: parameter not sent)
BuildParams(email, filter, search, page) ==
    [studentEmail |-> email,
     page |-> page,
     limit |-> PageLimit,
     filter |-> IF filter # "all" THEN filter ELSE "",
     search |-> IF Truthy(search) /\ Truthy(Trim(search)) THEN Trim(search)
                ELSE EmptyText]

\* a listing request: the arguments of fetchReports and what it sends
ListRequest(email, filter, search, page) ==
    [filter |-> filter, search |-> search, page |-> page,
     params |-> BuildParams(email, filter, search, page)]

\* setTimeout(() => fetchReports(activeFilter, searchQuery, 1),
\*            searchQuery ? 500 : 0), with the values the callback closes over
NewTimer(email, filter, search) ==
    [email |-> email, filter |-> filter, search |-> search, page |-> 1,
     delay |-> IF Truthy(search) THEN DebounceMs ELSE 0]

\* variant of ClearTimeouts: the effect returns no cleanup
ClearTimeoutsNone(pending) == pending

\* return () => clearTimeout(timeoutId): the cleanup of the previous effect
\* run, applied to the timers still pending
ClearTimeouts(pending) == {}

\* one run of the fetch effect: the previous run's cleanup, then a timer is
\* set unless the identity is missing
FetchEffect(email, filter, search, pending) ==
    ClearTimeouts(pending) \cup
    (IF IdentityMissing(email) THEN {} ELSE {NewTimer(email, filter, search)})

InitListVars ==
    /\ listMounted = FALSE
    /\ loading = TRUE
    /\ reports = <<>>
    /\ activeFilter = "all"
    /\ searchQuery = EmptyText
    /\ studentEmail = ""
    /\ pagination = DefaultPagination
    /\ timers = {}
    /\ listReqs = <<>>
    /\ lastReq = <<>>
    /\ reportToast = "none"
    /\ inputs = 0
    /\ cancelled = 0
    /\ newPageArg = 0
    /\ listOutcome = "none"
    /\ answered = <<>>
    /\ isModalOpen = FALSE
    /\ selectedReportId = Null
    /\ reportDetails = Missing
    /\ loadingReportDetails = FALSE
    /\ detailReqs = <<>>
    /\ detailOutcome = "none"
    /\ bodyOverflow = ""
    /\ escapeListener = FALSE
    /\ downloadingId = Null
    /\ downloadReqs = <<>>
    /\ files = <<>>
    /\ downloadOutcome = "none"

----------------------------------------------------------------------------
(* Initial state: both components freshly constructed *)

InitSubmitVars ==
    /\ submitMounted = FALSE
    /\ items = <<>>
    /\ isLoading = TRUE
    /\ isSubmitting = FALSE
    /\ generalComment = EmptyText
    /\ submitStudentEmail = ""
    /\ catalogOutcome = "none"
    /\ submitReqs = {}
    /\ submitToast = "none"
    /\ edits = 0
    /\ submitOutcome = "none"
    /\ editedInFlight = FALSE
    /\ submitsInFlight = 0

Init ==
    /\ localStorage \in StoredEmails
    /\ op = "init"
    /\ InitSubmitVars
    /\ InitListVars

----------------------------------------------------------------------------
(* Submit page: actions *)

\* both mount effects: read the identity, start fetchItems
SubmitMount ==
    /\ ~submitMounted
    /\ submitMounted' = TRUE
    /\ submitStudentEmail' = ReadStoredEmail(localStorage)
    /\ submitToast' = "none"
    /\ op' = "submitMount"
    /\ UNCHANGED <<items, isLoading, isSubmitting, generalComment,
                   catalogOutcome, submitReqs, submitsInFlight, edits,
                   submitOutcome,
                   editedInFlight>>
    /\ UNCHANGED <<localStorage, reportVars>>

\* continuation of fetchItems after the awaits, with its finally block
FetchItemsDone(resp) ==
    /\ submitMounted
    /\ catalogOutcome = "none"
    /\ isLoading' = FALSE
    /\ IF resp.kind = "throw"
       THEN /\ catalogOutcome' = "throw"
            /\ submitToast' = "Connection Error"
            /\ UNCHANGED items
       ELSE IF resp.success /\ resp.isArray
       THEN /\ catalogOutcome' = "loaded"
            /\ items' = ProjectCatalog(resp.items)
            /\ submitToast' = "none"
       ELSE /\ catalogOutcome' = "invalid"
            /\ items' = FallbackItems
            /\ submitToast' = "none"
    /\ op' = "fetchItems"
    /\ UNCHANGED <<submitMounted, isSubmitting, generalComment,
                   submitStudentEmail, submitReqs, submitsInFlight, edits,
                   submitOutcome,
                   editedInFlight>>
    /\ UNCHANGED <<localStorage, reportVars>>

\* this step changes an item or the overall comment
FormChanged == items' # items \/ generalComment' # generalComment

\* the form is rendered only once loading is over
FormShown == submitMounted /\ ~isLoading

HandleStatusChange(itemId, status) ==
    /\ FormShown
    /\ edits < MaxEdits
    /\ edits' = edits + 1
    /\ items' = SetStatus(items, itemId, status)
    /\ submitToast' = "none"
    /\ op' = "handleStatusChange"
    /\ UNCHANGED <<submitMounted, isLoading, isSubmitting, generalComment,
                   submitStudentEmail, catalogOutcome, submitReqs, submitsInFlight,
                   submitOutcome>>
    /\ UNCHANGED <<localStorage, reportVars>>
    /\ editedInFlight' = (editedInFlight \/ (submitReqs # {} /\ FormChanged))

HandleCommentChange(itemId, comment) ==
    /\ FormShown
    /\ edits < MaxEdits
    /\ edits' = edits + 1
    /\ items' = SetComment(items, itemId, comment)
    /\ submitToast' = "none"
    /\ op' = "handleCommentChange"
    /\ UNCHANGED <<submitMounted, isLoading, isSubmitting, generalComment,
                   submitStudentEmail, catalogOutcome, submitReqs, submitsInFlight,
                   submitOutcome>>
    /\ UNCHANGED <<localStorage, reportVars>>
    /\ editedInFlight' = (editedInFlight \/ (submitReqs # {} /\ FormChanged))

\* onChange of the overall comment textarea
SetGeneralComment(text) ==
    /\ FormShown
    /\ edits < MaxEdits
    /\ edits' = edits + 1
    /\ generalComment' = text
    /\ submitToast' = "none"
    /\ op' = "setGeneralComment"
    /\ UNCHANGED <<submitMounted, items, isLoading, isSubmitting,
                   submitStudentEmail, catalogOutcome, submitReqs, submitsInFlight,
                   submitOutcome>>
    /\ UNCHANGED <<localStorage, reportVars>>
    /\ editedInFlight' = (editedInFlight \/ (submitReqs # {} /\ FormChanged))

HandleMarkAllGood ==
    /\ FormShown
    /\ edits < MaxEdits
    /\ edits' = edits + 1
    /\ items' = MarkAllGood(items)
    /\ submitToast' = "All items marked as Good"
    /\ op' = "handleMarkAllGood"
    /\ UNCHANGED <<submitMounted, isLoading, isSubmitting, generalComment,
                   submitStudentEmail, catalogOutcome, submitReqs, submitsInFlight,
                   submitOutcome>>
    /\ UNCHANGED <<localStorage, reportVars>>
    /\ editedInFlight' = (editedInFlight \/ (submitReqs # {} /\ FormChanged))

HandleClearSelection ==
    /\ FormShown
    /\ edits < MaxEdits
    /\ edits' = edits + 1
    /\ items' = ClearItems(items)
    /\ submitToast' = "Selection cleared"
    /\ op' = "handleClearSelection"
    /\ UNCHANGED <<submitMounted, isLoading, isSubmitting, generalComment,
                   submitStudentEmail, catalogOutcome, submitReqs, submitsInFlight,
                   submitOutcome>>
    /\ UNCHANGED <<localStorage, reportVars>>
    /\ editedInFlight' = (editedInFlight \/ (submitReqs # {} /\ FormChanged))

\* variant of SubmitDisabled: the button is never disabled
SubmitDisabledNever == FALSE

\* disabled={isSubmitting} on the submit button, the only caller of
\* handleSubmit
SubmitDisabled == isSubmitting

\* handleSubmit up to its await: the validations, then the request is sent
HandleSubmit ==
    /\ FormShown
    /\ ~SubmitDisabled
    /\ LET err == ValidationError(items, submitStudentEmail) IN
       IF err # ""
       THEN /\ submitToast' = err
            /\ UNCHANGED <<isSubmitting, submitReqs, submitsInFlight,
                           editedInFlight>>
       ELSE /\ submitToast' = "none"
            /\ isSubmitting' = TRUE
            /\ submitsInFlight' = submitsInFlight + 1
            /\ editedInFlight' = FALSE
            /\ submitReqs' = submitReqs \cup
                   {SubmitPayload(items, generalComment, submitStudentEmail)}
    /\ op' = "handleSubmit"
    /\ UNCHANGED <<submitMounted, items, isLoading, generalComment,
                   submitStudentEmail, catalogOutcome, edits, submitOutcome>>
    /\ UNCHANGED <<localStorage, reportVars>>

\* handleSubmit after its awaits: data.success, else, catch, finally
SubmitDone(req, outcome) ==
    /\ req \in submitReqs
    /\ submitReqs' = submitReqs \ {req}
    /\ isSubmitting' = FALSE
    /\ submitsInFlight' = submitsInFlight - 1
    /\ submitToast' = SubmitNotification(outcome)
    /\ items' = ItemsAfterSubmit(items, outcome)
    /\ generalComment' = CommentAfterSubmit(generalComment, outcome)
    /\ submitOutcome' = outcome
    /\ op' = "submitDone"
    /\ UNCHANGED <<submitMounted, isLoading, submitStudentEmail,
                   catalogOutcome, edits, editedInFlight>>
    /\ UNCHANGED <<localStorage, reportVars>>

SubmitNext ==
    \/ SubmitMount
    \/ \E resp \in CatalogResponses : FetchItemsDone(resp)
    \/ \E id \in ItemIds(items), s \in Marks : HandleStatusChange(id, s)
    \/ \E id \in ItemIds(items), c \in Comments : HandleCommentChange(id, c)
    \/ \E c \in GeneralComments : SetGeneralComment(c)
    \/ HandleMarkAllGood
    \/ HandleClearSelection
    \/ HandleSubmit
    \/ \E req \in submitReqs, o \in SubmitResponses : SubmitDone(req, o)

SubmitSpec == Init /\ [][SubmitNext]_vars

----------------------------------------------------------------------------
(* List page: actions *)

\* fetchReports(filter, search, page) up to its await, called from a closure
\* that holds the identity `email`: nothing happens without an identity,
\* otherwise loading is set and the request is sent
FetchReports(email, filter, search, page) ==
    IF IdentityMissing(email)
    THEN UNCHANGED <<loading, listReqs, lastReq>>
    ELSE /\ Len(listReqs) < MaxInFlight
         /\ loading' = TRUE
         /\ listReqs' = Append(listReqs, ListRequest(email, filter, search, page))
         /\ lastReq' = Present(ListRequest(email, filter, search, page))

\* the mount effects: the identity is read from storage; the fetch effect
\* runs with '' first and again once the identity state is set
ListMount ==
    /\ ~listMounted
    /\ listMounted' = TRUE
    /\ studentEmail' = ReadStoredEmail(localStorage)
    /\ timers' = FetchEffect(studentEmail', activeFilter, searchQuery, timers)
    /\ cancelled' = cancelled + Cardinality(timers \ ClearTimeouts(timers))
    /\ reportToast' = "none"
    /\ op' = "listMount"
    /\ UNCHANGED <<loading, reports, activeFilter, searchQuery, pagination,
                   listReqs, lastReq, inputs, newPageArg, listOutcome, answered>>
    /\ UNCHANGED <<localStorage, submitVars, modalVars, downloadVars>>

\* the filter buttons and the search input are disabled while loading
ControlsEnabled == listMounted /\ ~loading

\* handleFilterChange, the re-render and the fetch effect it triggers
\* (no re-render when the value is the one already set)
HandleFilterChange(filter) ==
    /\ ControlsEnabled
    /\ inputs < MaxInputs
    /\ inputs' = inputs + 1
    /\ activeFilter' = filter
    /\ timers' = IF filter = activeFilter THEN timers
                 ELSE FetchEffect(studentEmail, filter, searchQuery, timers)
    /\ cancelled' = IF filter = activeFilter THEN cancelled
                    ELSE cancelled + Cardinality(timers \ ClearTimeouts(timers))
    /\ reportToast' = "none"
    /\ op' = "handleFilterChange"
    /\ UNCHANGED <<listMounted, loading, reports, searchQuery, studentEmail,
                   pagination, listReqs, lastReq, newPageArg,
                   listOutcome, answered>>
    /\ UNCHANGED <<localStorage, submitVars, modalVars, downloadVars>>

\* handleSearchChange, the re-render and the fetch effect it triggers
HandleSearchChange(text) ==
    /\ ControlsEnabled
    /\ inputs < MaxInputs
    /\ inputs' = inputs + 1
    /\ searchQuery' = text
    /\ timers' = IF text = searchQuery THEN timers
                 ELSE FetchEffect(studentEmail, activeFilter, text, timers)
    /\ cancelled' = IF text = searchQuery THEN cancelled
                    ELSE cancelled + Cardinality(timers \ ClearTimeouts(timers))
    /\ reportToast' = "none"
    /\ op' = "handleSearchChange"
    /\ UNCHANGED <<listMounted, loading, reports, activeFilter, studentEmail,
                   pagination, listReqs, lastReq, newPageArg,
                   listOutcome, answered>>
    /\ UNCHANGED <<localStorage, submitVars, modalVars, downloadVars>>

\* a pending timer of the fetch effect fires
TimerFires(t) ==
    /\ t \in timers
    /\ timers' = timers \ {t}
    /\ FetchReports(t.email, t.filter, t.search, t.page)
    /\ reportToast' = "none"
    /\ op' = "timerFires"
    /\ UNCHANGED <<listMounted, reports, activeFilter, searchQuery,
                   studentEmail, pagination, inputs, cancelled, newPageArg,
                   listOutcome, answered>>
    /\ UNCHANGED <<localStorage, submitVars, modalVars, downloadVars>>

\* the pagination controls are rendered below a non-empty list
PaginationShown ==
    /\ listMounted
    /\ ~loading
    /\ Len(reports) # 0
    /\ pagination.totalPages > 1

\* disabled={!pagination.hasPrev || loading}
PrevDisabled == ~pagination.hasPrev \/ loading

\* disabled={!pagination.hasNext || loading}
NextDisabled == ~pagination.hasNext \/ loading

\* variant of PageInRange: the upper bound is not checked
PageInRangeNoUpper(newPage) == newPage >= 1

\* newPage >= 1 && newPage <= pagination.totalPages
PageInRange(newPage) == newPage >= 1 /\ newPage <= pagination.totalPages

HandlePageChange(newPage) ==
    /\ inputs < MaxInputs
    /\ inputs' = inputs + 1
    /\ newPageArg' = newPage
    /\ IF PageInRange(newPage)
       THEN FetchReports(studentEmail, activeFilter, searchQuery, newPage)
       ELSE UNCHANGED <<loading, listReqs, lastReq>>
    /\ reportToast' = "none"
    /\ op' = "handlePageChange"
    /\ UNCHANGED <<listMounted, reports, activeFilter, searchQuery,
                   studentEmail, pagination, timers, cancelled, listOutcome, answered>>
    /\ UNCHANGED <<localStorage, submitVars, modalVars, downloadVars>>

\* click on Previous
ClickPrevious ==
    /\ PaginationShown
    /\ ~PrevDisabled
    /\ HandlePageChange(pagination.currentPage - 1)

\* click on Next
ClickNext ==
    /\ PaginationShown
    /\ ~NextDisabled
    /\ HandlePageChange(pagination.currentPage + 1)

\* the branch of fetchReports a response takes
ListOutcome(resp) ==
    IF resp.kind # "ok" THEN resp.kind
    ELSE IF resp.body.success /\ resp.body.hasData THEN "success"
    ELSE "failure"

\* variant of ListNotification: every response without reports is notified
ListNotificationAlways(outcome) ==
    IF outcome = "success" THEN "none" ELSE "Failed to Load Reports"

\* the toast of fetchReports: toastError only in the catch block, which the
\* throw on !response.ok and a rejected fetch or json() reach
ListNotification(outcome) ==
    IF outcome \in {"error", "throw"} THEN "Failed to Load Reports" ELSE "none"

\* variant of ReportsAfterList: the rows on screen stay when nothing came
ReportsAfterListKeeps(resp) ==
    IF ListOutcome(resp) = "success"
    THEN OrElse(resp.body.reports, <<>>)
    ELSE reports

\* setReports: result.data.reports || [] on success, [] on every other path
ReportsAfterList(resp) ==
    IF ListOutcome(resp) = "success"
    THEN OrElse(resp.body.reports, <<>>)
    ELSE <<>>

\* variant of PaginationAfterList: the pagination of the response is dropped
PaginationAfterListDefault(resp) == DefaultPagination

\* setPagination: result.data.pagination || default on success, the default
\* on every other path
PaginationAfterList(resp) ==
    IF ListOutcome(resp) = "success"
    THEN OrElse(resp.body.pagination, DefaultPagination)
    ELSE DefaultPagination

\* fetchReports after its awaits: 404, !response.ok, the body, catch, finally
FetchReportsDone(i, resp) ==
    /\ i \in 1..Len(listReqs)
    /\ listReqs' = [j \in 1..(Len(listReqs) - 1) |->
                       IF j < i THEN listReqs[j] ELSE listReqs[j + 1]]
    /\ loading' = FALSE
    /\ reports' = ReportsAfterList(resp)
    /\ pagination' = PaginationAfterList(resp)
    /\ reportToast' = ListNotification(ListOutcome(resp))
    /\ listOutcome' = ListOutcome(resp)
    /\ answered' = Present(listReqs[i])
    /\ op' = "fetchReportsDone"
    /\ UNCHANGED <<listMounted, activeFilter, searchQuery, studentEmail,
                   timers, lastReq, inputs, cancelled, newPageArg>>
    /\ UNCHANGED <<localStorage, submitVars, modalVars, downloadVars>>

ListNext ==
    \/ ListMount
    \/ \E f \in Filters : HandleFilterChange(f)
    \/ \E text \in SearchTexts : HandleSearchChange(text)
    \/ \E t \in timers : TimerFires(t)
    \/ ClickPrevious
    \/ ClickNext
    \/ \E i \in 1..Len(listReqs), resp \in ListResponses :
           FetchReportsDone(i, resp)

ListSpec == Init /\ [][ListNext]_vars

\* the list page under fair scheduling: the mount effects run, a pending
\* timer fires, and a request that was sent is answered
ListFairSpec ==
    /\ ListSpec
    /\ WF_vars(ListMount)
    /\ WF_vars(\E t \in timers : TimerFires(t))
    /\ WF_vars(\E i \in 1..Len(listReqs), resp \in ListResponses :
                  FetchReportsDone(i, resp))

----------------------------------------------------------------------------
(* List page: the detail modal *)

\* the list state the modal and the downloads leave alone
listData == <<listMounted, loading, reports, activeFilter, searchQuery,
              studentEmail, pagination, timers, listReqs, lastReq,
              cancelled, newPageArg, listOutcome, answered>>

\* the rows are rendered: loading ? skeleton : reports.length === 0 ? empty : rows
RowsShown == listMounted /\ ~loading /\ Len(reports) # 0

\* the row buttons can be clicked: while the modal is open its overlay lies
\* over the page and a click outside the modal content is a backdrop click
RowsClickable == RowsShown /\ ~isModalOpen

\* report.id of the rendered rows
RowIds == {reports[k] : k \in 1..Len(reports)}

\* body of a 2xx detail response: result.success and whether result.data
\* is there; the data is the record stored under the requested id
DetailBodies == [success : BOOLEAN, hasData : BOOLEAN]

\* result.data of the request for reportId
DetailData(reportId) == [id |-> reportId]

\* what the detail request can come back with
DetailResponses ==
    [kind : {"notfound", "error", "throw"}, body : {NoBody}]
        \cup [kind : {"ok"}, body : DetailBodies]

\* the branch of fetchReportDetails a response takes
DetailOutcome(resp) ==
    IF resp.kind # "ok" THEN resp.kind
    ELSE IF resp.body.success /\ resp.body.hasData THEN "success"
    ELSE "failure"

\* variant of DetailNotification: a 404 raises nothing
DetailNotificationQuiet404(outcome) ==
    CASE outcome = "failure" -> "Report Not Available"
      [] outcome \in {"error", "throw"} -> "Error"
      [] OTHER -> "none"

\* the toastError calls of fetchReportDetails
DetailNotification(outcome) ==
    CASE outcome = "notfound" -> "Report Not Found"
      [] outcome = "failure" -> "Report Not Available"
      [] outcome \in {"error", "throw"} -> "Error"
      [] OTHER -> "none"

\* a sequence without its i-th element
RemoveAt(seq, i) ==
    [j \in 1..(Len(seq) - 1) |-> IF j < i THEN seq[j] ELSE seq[j + 1]]

\* variant of OverflowAfter: the cleanup does not restore the scroll
OverflowAfterHidden(open) == "hidden"

\* the overflow style once the effect on isModalOpen has run: the cleanup
\* of the previous run sets 'unset', the new run sets 'hidden' when open
OverflowAfter(open) == IF open THEN "hidden" ELSE "unset"

\* the effect on [isModalOpen], which runs when the value has changed
ModalEffect ==
    /\ escapeListener' = IF isModalOpen' = isModalOpen THEN escapeListener
                         ELSE isModalOpen'
    /\ bodyOverflow' = IF isModalOpen' = isModalOpen THEN bodyOverflow
                       ELSE OverflowAfter(isModalOpen')

\* fetchReportDetails up to its first await
FetchReportDetails(reportId) ==
    /\ loadingReportDetails' = TRUE
    /\ detailReqs' = Append(detailReqs, reportId)

\* click on the View button of a row
HandleView(reportId) ==
    /\ RowsClickable
    /\ reportId \in RowIds
    /\ inputs < MaxInputs
    /\ inputs' = inputs + 1
    /\ selectedReportId' = reportId
    /\ isModalOpen' = TRUE
    /\ ModalEffect
    /\ FetchReportDetails(reportId)
    /\ reportToast' = "none"
    /\ op' = "handleView"
    /\ UNCHANGED <<reportDetails, detailOutcome>>
    /\ UNCHANGED <<localStorage, submitVars, listData, downloadVars>>

HandleCloseModal ==
    /\ isModalOpen' = FALSE
    /\ ModalEffect
    /\ selectedReportId' = Null
    /\ reportDetails' = Missing
    /\ reportToast' = "none"
    /\ UNCHANGED <<loadingReportDetails, detailReqs, detailOutcome, inputs>>
    /\ UNCHANGED <<localStorage, submitVars, listData, downloadVars>>

\* click on the close button of the modal
ClickClose ==
    /\ isModalOpen
    /\ HandleCloseModal
    /\ op' = "clickClose"

\* handleBackdropClick with e.target === e.currentTarget
HandleBackdropClick ==
    /\ isModalOpen
    /\ HandleCloseModal
    /\ op' = "handleBackdropClick"

\* the Escape key is pressed: handleEscape runs if it is registered, and
\* closes the modal if the render that registered it had the modal open
HandleEscape ==
    /\ listMounted
    /\ IF escapeListener /\ isModalOpen
       THEN HandleCloseModal
       ELSE /\ reportToast' = "none"
            /\ UNCHANGED <<modalVars, inputs>>
            /\ UNCHANGED <<localStorage, submitVars, listData, downloadVars>>
    /\ op' = "handleEscape"

\* the modal renders loadingReportDetails ? loading : reportDetails ? details
\* : failure
LoadingShown == isModalOpen /\ loadingReportDetails

SuccessShown == isModalOpen /\ ~loadingReportDetails /\ reportDetails # Missing

\* the failure view of the modal, which carries the Try Again button
FailureShown == isModalOpen /\ ~loadingReportDetails /\ reportDetails = Missing

\* click on Try Again: selectedReportId && fetchReportDetails(selectedReportId)
ClickTryAgain ==
    /\ FailureShown
    /\ inputs < MaxInputs
    /\ inputs' = inputs + 1
    /\ IF selectedReportId # Null
       THEN FetchReportDetails(selectedReportId)
       ELSE UNCHANGED <<loadingReportDetails, detailReqs>>
    /\ reportToast' = "none"
    /\ op' = "clickTryAgain"
    /\ UNCHANGED <<isModalOpen, selectedReportId, reportDetails, detailOutcome,
                   bodyOverflow, escapeListener>>
    /\ UNCHANGED <<localStorage, submitVars, listData, downloadVars>>

\* fetchReportDetails after its awaits
FetchReportDetailsDone(i, resp) ==
    /\ i \in 1..Len(detailReqs)
    /\ detailReqs' = RemoveAt(detailReqs, i)
    /\ reportDetails' = IF DetailOutcome(resp) = "success"
                        THEN Present(DetailData(detailReqs[i]))
                        ELSE Missing
    /\ reportToast' = DetailNotification(DetailOutcome(resp))
    /\ loadingReportDetails' = FALSE
    /\ detailOutcome' = DetailOutcome(resp)
    /\ op' = "fetchReportDetailsDone"
    /\ UNCHANGED <<isModalOpen, selectedReportId, inputs, bodyOverflow,
                   escapeListener>>
    /\ UNCHANGED <<localStorage, submitVars, listData, downloadVars>>

ModalNext ==
    \/ ListMount
    \/ \E t \in timers : TimerFires(t)
    \/ \E i \in 1..Len(listReqs), resp \in ListResponses :
           FetchReportsDone(i, resp)
    \/ \E reportId \in RowIds : HandleView(reportId)
    \/ ClickClose
    \/ HandleBackdropClick
    \/ HandleEscape
    \/ ClickTryAgain
    \/ \E i \in 1..Len(detailReqs), resp \in DetailResponses :
           FetchReportDetailsDone(i, resp)

ModalSpec == Init /\ [][ModalNext]_vars

----------------------------------------------------------------------------
(* List page: downloads *)

\* what the download request can come back with: a 2xx response whose blob
\* is read, a non-2xx response, a rejected fetch or blob()
DownloadOutcomes == {"ok", "error", "throw"}

\* variant of FileName: the prefix is left out
FileNameBare(reportId) == <<reportId, ".pdf">>

\* a.download = `report-${reportId}.pdf`
FileName(reportId) == <<"report-", reportId, ".pdf">>

\* disabled={downloadingId === report.id}
RowBusy(reportId) == downloadingId = reportId

\* click on the Download button of a row, up to the first await
HandleDownload(reportId) ==
    /\ RowsClickable
    /\ reportId \in RowIds
    /\ ~RowBusy(reportId)
    /\ inputs < MaxInputs
    /\ inputs' = inputs + 1
    /\ downloadingId' = reportId
    /\ downloadReqs' = Append(downloadReqs, reportId)
    /\ reportToast' = "none"
    /\ op' = "handleDownload"
    /\ UNCHANGED <<files, downloadOutcome>>
    /\ UNCHANGED <<localStorage, submitVars, listData, modalVars>>

\* variant of BusyAfterDownload: the flag is cleared at the end of the try
\* block only
BusyAfterDownloadOkOnly(outcome) ==
    IF outcome = "ok" THEN Null ELSE downloadingId

\* finally { setDownloadingId(null) }
BusyAfterDownload(outcome) == Null

\* handleDownload after its awaits
DownloadDone(i, outcome) ==
    /\ i \in 1..Len(downloadReqs)
    /\ downloadReqs' = RemoveAt(downloadReqs, i)
    /\ IF outcome = "ok"
       THEN /\ files' = Append(files, FileName(downloadReqs[i]))
            /\ reportToast' = "Download Started"
       ELSE /\ files' = files
            /\ reportToast' = "Download Failed"
    /\ downloadingId' = BusyAfterDownload(outcome)
    /\ downloadOutcome' = outcome
    /\ op' = "downloadDone"
    /\ UNCHANGED inputs
    /\ UNCHANGED <<localStorage, submitVars, listData, modalVars>>

DownloadNext ==
    \/ ListMount
    \/ \E t \in timers : TimerFires(t)
    \/ \E i \in 1..Len(listReqs), resp \in ListResponses :
           FetchReportsDone(i, resp)
    \/ \E reportId \in RowIds : HandleDownload(reportId)
    \/ \E i \in 1..Len(downloadReqs), outcome \in DownloadOutcomes :
           DownloadDone(i, outcome)

DownloadSpec == Init /\ [][DownloadNext]_vars

----------------------------------------------------------------------------
(* The application: one of the two pages is mounted and used *)

\* a row button (View, Try Again, Download) has been used in this run
RowButtonsUsed ==
    \/ Len(detailReqs) # 0 \/ detailOutcome # "none"
    \/ Len(downloadReqs) # 0 \/ downloadOutcome # "none"

\* a list control (filter, search, Previous, Next) has been used in this run
ListControlsUsed == inputs > 0 /\ ~RowButtonsUsed

\* the steps of the report page; a run spends its inputs either on the
\* list controls or on the row buttons and the modal
ReportNext ==
    \/ ListMount
    \/ \E t \in timers : TimerFires(t)
    \/ \E i \in 1..Len(listReqs), resp \in ListResponses :
           FetchReportsDone(i, resp)
    \/ /\ ~RowButtonsUsed
       /\ \/ \E f \in Filters : HandleFilterChange(f)
          \/ \E text \in SearchTexts : HandleSearchChange(text)
          \/ ClickPrevious
          \/ ClickNext
    \/ /\ ~ListControlsUsed
       /\ \/ \E reportId \in RowIds : HandleView(reportId)
          \/ ClickClose
          \/ HandleBackdropClick
          \/ HandleEscape
          \/ ClickTryAgain
          \/ \E i \in 1..Len(detailReqs), resp \in DetailResponses :
                 FetchReportDetailsDone(i, resp)
          \/ \E reportId \in RowIds : HandleDownload(reportId)
          \/ \E i \in 1..Len(downloadReqs), outcome \in DownloadOutcomes :
                 DownloadDone(i, outcome)

\* the two pages are different routes: the one that is mounted runs
AppNext ==
    \/ ~listMounted /\ SubmitNext
    \/ ~submitMounted /\ ReportNext

AppSpec == Init /\ [][AppNext]_vars

----------------------------------------------------------------------------
(* Properties of the submit page *)

\* a text with a character that is not white space
NonBlank(text) == \E k \in 1..Len(text) : text[k] \notin WhiteSpace

\* some item of the list is still pending
SomePending(its) == \E i \in 1..Len(its) : its[i].status = "pending"

\* some bad or flagged item of the list has a blank comment
SomeUncommented(its) ==
    \E i \in 1..Len(its) :
        its[i].status \in {"bad", "flagged"} /\ ~NonBlank(its[i].comment)

\* C1: every submit request that has been sent passed the three validation
\* gates: no item of its payload is pending, every bad or flagged item has a
\* comment that is not blank, and reporterEmail is a non-empty identity.
C1_SentRequestsPassValidation ==
    \A req \in submitReqs :
        /\ ~SomePending(req.items)
        /\ ~SomeUncommented(req.items)
        /\ req.reporterEmail # ""

\* a request with a commented bad item is in flight, sent after an earlier
\* submission was answered
C1_Witness ==
    /\ submitOutcome # "none"
    /\ \E req \in submitReqs :
          /\ req.reporterEmail = "student@npc"
          /\ \E i \in 1..Len(req.items) :
                req.items[i].status = "bad" /\ NonBlank(req.items[i].comment)

ValidationTitles == {"Incomplete Form", "Comments Required", "Authentication Error"}

\* C2: handleSubmit reports only the first failing check, in the order
\* pending, comments, identity: with a pending item the error is exactly
\* "Incomplete Form"; "Comments Required" only when nothing is pending;
\* "Authentication Error" only when the first two checks pass; and a
\* rejection sends no request and leaves items, general comment and
\* isSubmitting as they were.
C2_ValidationOrder ==
    [][op' = "handleSubmit" =>
        /\ SomePending(items) => submitToast' = "Incomplete Form"
        /\ (~SomePending(items) /\ SomeUncommented(items))
              => submitToast' = "Comments Required"
        /\ (~SomePending(items) /\ ~SomeUncommented(items)
              /\ submitStudentEmail = "")
              => submitToast' = "Authentication Error"
        /\ submitToast' = "Incomplete Form" => SomePending(items)
        /\ submitToast' = "Comments Required" => ~SomePending(items)
        /\ submitToast' = "Authentication Error" =>
              ~SomePending(items) /\ ~SomeUncommented(items)
        /\ submitToast' \in ValidationTitles =>
              /\ submitReqs' = submitReqs
              /\ items' = items
              /\ generalComment' = generalComment
              /\ isSubmitting' = isSubmitting
    ]_vars

\* handleSubmit has just reported "Incomplete Form" for a form that has a
\* pending item, a bad item without comment and no identity
C2_Witness ==
    /\ op = "handleSubmit"
    /\ submitToast = "Incomplete Form"
    /\ SomePending(items)
    /\ SomeUncommented(items)
    /\ submitStudentEmail = ""
    /\ submitReqs = {}

\* C3: when a submit response reports success, every item is pending with
\* an empty comment, the identifiers, names, descriptions and order of the
\* items are as before, and the general comment is empty, whatever the user
\* changed while the request was in flight.
C3_SuccessResetsForm ==
    [][(op' = "submitDone" /\ submitOutcome' = "success") =>
        /\ Len(items') = Len(items)
        /\ \A i \in 1..Len(items) :
              /\ items'[i].id = items[i].id
              /\ items'[i].name = items[i].name
              /\ items'[i].description = items[i].description
              /\ items'[i].status = "pending"
              /\ items'[i].comment = EmptyText
        /\ generalComment' = EmptyText
    ]_vars

\* a success response has just been handled for a request during whose
\* flight the user changed the form
C3_Witness ==
    /\ op = "submitDone"
    /\ submitOutcome = "success"
    /\ editedInFlight
    /\ Len(items) > 0
    /\ submitToast = "Report Submitted Successfully!"

\* C4: when a submit response reports failure or the request throws, a
\* failure notification fires, items and general comment are what they were
\* just before the response was handled, and isSubmitting is false again.
C4_FailurePreservesForm ==
    [][(op' = "submitDone" /\ submitOutcome' \in {"failure", "throw"}) =>
        /\ submitToast' \in {"Submission Failed", "Network Error"}
        /\ items' = items
        /\ generalComment' = generalComment
        /\ isSubmitting' = FALSE
    ]_vars

\* a failed submission has just been handled and the filled-in form, with
\* a commented bad item, is still there
C4_Witness ==
    /\ op = "submitDone"
    /\ submitOutcome \in {"failure", "throw"}
    /\ ~isSubmitting
    /\ ~SomePending(items)
    /\ \E i \in 1..Len(items) :
          items[i].status = "bad" /\ NonBlank(items[i].comment)

\* C5: when the catalog fetch throws or its response shape is invalid, then
\* as loading completes the item list is the fallback catalog of five
\* pending items without comments and a connectivity warning has fired.
C5_FallbackOnCatalogFailure ==
    [][(op' = "fetchItems" /\ catalogOutcome' \in {"throw", "invalid"}) =>
        /\ ~isLoading'
        /\ Len(items') = 5
        /\ \A i \in 1..Len(items') :
              items'[i].status = "pending" /\ items'[i].comment = EmptyText
        /\ submitToast' = "Connection Error"
    ]_vars

\* C31: at most one submit request is in flight at any time, and while one
\* is in flight isSubmitting is true, which disables the submit button.
C31_OneSubmitInFlight ==
    /\ submitsInFlight <= 1
    /\ Cardinality(submitReqs) = submitsInFlight
    /\ submitsInFlight = 1 <=> isSubmitting

\* a request is in flight, the form has been changed since it was sent and
\* passes the validations again: only the disabled button holds back a
\* second request
C31_Witness ==
    /\ submitsInFlight = 1
    /\ isSubmitting
    /\ editedInFlight
    /\ Len(items) = 2
    /\ ValidationError(items, submitStudentEmail) = ""
    /\ \A req \in submitReqs : req.items # items

\* number of items of the list with the given status
CountStatus(its, status) ==
    Cardinality({ i \in DOMAIN its : its[i].status = status })

\* the positions at which this step changes an item
ChangedItems == { i \in DOMAIN items : items'[i] # items[i] }

\* C22: handleStatusChange and handleCommentChange change one field of the
\* one item with the given identifier: at most one item differs afterwards,
\* the other field of every item, the number and order of items and the
\* general comment are unchanged, and no request is issued.
C22_EditsOneItem ==
    [][op' \in {"handleStatusChange", "handleCommentChange"} =>
        /\ Len(items') = Len(items)
        /\ generalComment' = generalComment
        /\ submitReqs' = submitReqs
        /\ Cardinality(ChangedItems) <= 1
        /\ \A i \in DOMAIN items :
              /\ items'[i].id = items[i].id
              /\ items'[i].name = items[i].name
              /\ items'[i].description = items[i].description
              /\ op' = "handleStatusChange" => items'[i].comment = items[i].comment
              /\ op' = "handleCommentChange" => items'[i].status = items[i].status
    ]_vars

\* C23: handleClearSelection sets every item to pending with an empty
\* comment, keeps the identifiers, the order and the general comment, and a
\* second invocation right after it changes nothing.
C23_ClearSelectionIdempotent ==
    [][op' = "handleClearSelection" =>
        /\ Len(items') = Len(items)
        /\ generalComment' = generalComment
        /\ \A i \in DOMAIN items :
              /\ items'[i].id = items[i].id
              /\ items'[i].name = items[i].name
              /\ items'[i].description = items[i].description
              /\ items'[i].status = "pending"
              /\ items'[i].comment = EmptyText
        /\ ClearItems(items') = items'
    ]_vars

\* the selection of a two-item form with an overall comment has just been
\* cleared, after two other edits
C23_Witness ==
    /\ op = "handleClearSelection"
    /\ Len(items) = 2
    /\ edits = 3
    /\ generalComment = <<"g">>
    /\ \A i \in DOMAIN items : items[i].status = "pending"

\* C25: in every submit request sent, totalItems is the number of items of
\* the payload, goodItems, badItems and flaggedItems are the numbers of
\* payload items with that status, and the three add up to totalItems.
C25_SummaryMatchesItems ==
    \A req \in submitReqs :
        /\ req.summary.totalItems = Len(req.items)
        /\ req.summary.goodItems = CountStatus(req.items, "good")
        /\ req.summary.badItems = CountStatus(req.items, "bad")
        /\ req.summary.flaggedItems = CountStatus(req.items, "flagged")
        /\ req.summary.goodItems + req.summary.badItems
              + req.summary.flaggedItems = req.summary.totalItems

\* a request with one good and one bad item is in flight
C25_Witness ==
    \E req \in submitReqs :
        /\ req.summary.totalItems = 2
        /\ req.summary.goodItems = 1
        /\ req.summary.badItems = 1
        /\ req.summary.flaggedItems = 0

\* C28: a status changes only by handleStatusChange on the identifier of
\* that item (to good, bad or flagged), by handleMarkAllGood (to good), or
\* by the reset of handleClearSelection or of a successful submission (to
\* pending); handleStatusChange and handleMarkAllGood leave every comment
\* untouched.
C28_ItemStateMachine ==
    [][/\ op' # "fetchItems" => Len(items') = Len(items)
       /\ \A i \in DOMAIN items :
             (op' # "fetchItems" /\ items'[i].status # items[i].status) =>
                \/ /\ op' = "handleStatusChange"
                   /\ items'[i].status \in {"good", "bad", "flagged"}
                   /\ \A j \in ChangedItems : items[j].id = items[i].id
                \/ /\ op' = "handleMarkAllGood"
                   /\ items'[i].status = "good"
                \/ /\ op' = "handleClearSelection"
                   /\ items'[i].status = "pending"
                \/ /\ op' = "submitDone"
                   /\ submitOutcome' = "success"
                   /\ items'[i].status = "pending"
       /\ op' \in {"handleStatusChange", "handleMarkAllGood"} =>
             \A i \in DOMAIN items : items'[i].comment = items[i].comment
    ]_vars

\* a submission has just failed and the marks and the comment of the form
\* are the ones that were sent
C28_Witness ==
    /\ op = "submitDone"
    /\ submitOutcome = "failure"
    /\ Len(items) = 2
    /\ items[1].status = "good"
    /\ items[2].status = "bad"
    /\ items[2].comment = <<"x">>

\* C29: once the catalog fetch has ended, the four counts add up to the
\* number of items, there is at least one item, and the completion
\* percentage is a number between 0 and 100 that is 100 exactly when no item
\* is pending.
C29_StatisticsConsistent ==
    catalogOutcome # "none" =>
        /\ Stats(items, "good") + Stats(items, "bad") + Stats(items, "flagged")
             + Stats(items, "pending") = Len(items)
        /\ Len(items) >= 1
        /\ Len(CompletionPercentage(items)) = 1
        /\ CompletionPercentage(items)[1] \in 0..100
        /\ CompletionPercentage(items)[1] = 100 <=> Stats(items, "pending") = 0

----------------------------------------------------------------------------
(* Properties of the list page *)

\* this step issues a listing request
IssuesRequest == Len(listReqs') = Len(listReqs) + 1

\* the listing request issued by this step
Issued == listReqs'[Len(listReqs')]

\* C6: at most one debounce timer is pending; a pending timer carries the
\* search text and filter shown now (so a burst of changes ends in one fetch
\* for the final text); its delay is zero exactly when the search text is
\* empty and 500 ms otherwise; and when it fires it issues one fetch for the
\* current text and leaves no timer behind.
C6_Debounce ==
    /\ [](/\ Cardinality(timers) <= 1
          /\ \A t \in timers :
                /\ t.search = searchQuery
                /\ t.filter = activeFilter
                /\ t.page = 1
                /\ (searchQuery = EmptyText) => t.delay = 0
                /\ (searchQuery # EmptyText) => t.delay = 500)
    /\ [][op' = "timerFires" =>
            /\ timers' = {}
            /\ IssuesRequest
            /\ Issued.search = searchQuery
            /\ Issued.page = 1
       ]_vars

\* the timer of the last of several search changes has fired, after an
\* earlier timer was cleared, and its fetch carries the final text
C6_Witness ==
    /\ op = "timerFires"
    /\ cancelled >= 1
    /\ inputs = 2
    /\ timers = {}
    /\ searchQuery = <<"a">>
    /\ Len(lastReq) = 1
    /\ lastReq[1].search = <<"a">>
    /\ activeFilter = "all"

\* C7: a change of the filter, with the identity present, issues the fetch
\* for the new filter and page 1 without debounce delay, whatever the search
\* text is.
C7_FilterChangeFetchesImmediately ==
    [][(op' = "handleFilterChange" /\ activeFilter' # activeFilter
          /\ studentEmail # "") =>
        /\ Cardinality(timers') = 1
        /\ \A t \in timers' :
              t.filter = activeFilter' /\ t.page = 1 /\ t.delay = 0
    ]_vars

\* C8: a listing fetch whose filter or search text differs from those of the
\* fetch issued before it requests page 1.
C8_ChangedInputsFetchPageOne ==
    [][(IssuesRequest /\ Len(lastReq) = 1
          /\ (Issued.filter # lastReq[1].filter
                \/ Issued.search # lastReq[1].search)) =>
        Issued.page = 1
    ]_vars

\* C9: every listing request sent carries the non-empty identity read from
\* storage at mount, and none exists while the identity is empty.
C9_RequestsCarryIdentity ==
    /\ \A i \in 1..Len(listReqs) :
          /\ listReqs[i].params.studentEmail # ""
          /\ listReqs[i].params.studentEmail = localStorage
    /\ \A i \in 1..Len(lastReq) :
          /\ lastReq[i].params.studentEmail # ""
          /\ lastReq[i].params.studentEmail = localStorage
    /\ (studentEmail = "" => (Len(listReqs) = 0 /\ Len(lastReq) = 0))

\* two requests are in flight, one sent by the debounce timer and one by a
\* page change, both with the stored identity
C9_Witness ==
    /\ Len(listReqs) = 2
    /\ listReqs[1].page = 2
    /\ listReqs[2].page = 1
    /\ listReqs[2].search = <<"a">>
    /\ listReqs[1].params.studentEmail = "student@npc"

\* C10: handlePageChange(newPage) issues no request and changes no state
\* when newPage is outside 1..totalPages; otherwise it issues exactly one
\* fetch for newPage with the current filter and search text, which it
\* leaves unchanged.
C10_PageChange ==
    [][op' = "handlePageChange" =>
        /\ activeFilter' = activeFilter
        /\ searchQuery' = searchQuery
        /\ reports' = reports
        /\ pagination' = pagination
        /\ timers' = timers
        /\ IF newPageArg' < 1 \/ newPageArg' > pagination.totalPages
           THEN /\ listReqs' = listReqs
                /\ lastReq' = lastReq
                /\ loading' = loading
           ELSE /\ IssuesRequest
                /\ SubSeq(listReqs', 1, Len(listReqs)) = listReqs
                /\ Issued.page = newPageArg'
                /\ Issued.filter = activeFilter
                /\ Issued.search = searchQuery
                /\ Issued.params.page = newPageArg'
    ]_vars

\* a page change beyond the last page has just been ignored, after an
\* earlier page change fetched page 2
C10_Witness ==
    /\ op = "handlePageChange"
    /\ newPageArg > pagination.totalPages
    /\ Len(listReqs) = 0
    /\ ~loading
    /\ Len(lastReq) = 1
    /\ lastReq[1].page = 2

\* the pagination the page starts with and falls back to, field by field
IsDefaultPagination(p) ==
    /\ p.currentPage = 1
    /\ p.totalPages = 1
    /\ p.totalReports = 0
    /\ ~p.hasNext
    /\ ~p.hasPrev

\* C11: after a listing request answered with status 404 the list is empty,
\* the pagination is the default one, loading is false and no failure
\* notification is raised.
C11_ListingNotFound ==
    (op = "fetchReportsDone" /\ listOutcome = "notfound") =>
        /\ reports = <<>>
        /\ IsDefaultPagination(pagination)
        /\ ~loading
        /\ reportToast = "none"

\* a 404 has just answered the request for page 2, which only a non-empty
\* list with more than one page could have sent
C11_Witness ==
    /\ op = "fetchReportsDone"
    /\ listOutcome = "notfound"
    /\ Len(lastReq) = 1
    /\ lastReq[1].page = 2
    /\ Len(listReqs) = 0
    /\ reports = <<>>

\* C12: after a listing request answered with a non-2xx status other than
\* 404, or one that threw, a failure notification is raised, the list is
\* empty and the pagination is the default one.
C12_ListingFailure ==
    (op = "fetchReportsDone" /\ listOutcome \in {"error", "throw"}) =>
        /\ reportToast = "Failed to Load Reports"
        /\ reports = <<>>
        /\ IsDefaultPagination(pagination)

\* the request for page 2 has just failed with an error status
C12_Witness ==
    /\ op = "fetchReportsDone"
    /\ listOutcome = "error"
    /\ Len(lastReq) = 1
    /\ lastReq[1].page = 2
    /\ reportToast = "Failed to Load Reports"

\* C13: a 2xx listing response whose body reports failure (success false, or
\* no data) raises a failure notification and leaves the list empty with the
\* default pagination.
C13_ReportedFailureSurfaced ==
    (op = "fetchReportsDone" /\ listOutcome = "failure") =>
        /\ reportToast # "none"
        /\ reports = <<>>
        /\ IsDefaultPagination(pagination)

\* C14: whenever the pagination controls are shown, Previous is disabled
\* exactly when hasPrev is false or a listing fetch is in flight, and Next
\* exactly when hasNext is false or a listing fetch is in flight.
C14_ControlsDisabledWhileFetching ==
    (listMounted /\ ~loading /\ Len(reports) # 0 /\ pagination.totalPages > 1) =>
        /\ PrevDisabled <=> (~pagination.hasPrev \/ Len(listReqs) > 0)
        /\ NextDisabled <=> (~pagination.hasNext \/ Len(listReqs) > 0)

\* C20: the stored pagination always satisfies 1 <= currentPage <=
\* totalPages, hasPrev = (currentPage > 1), hasNext = (currentPage <
\* totalPages).
C20_PaginationConsistent ==
    /\ 1 <= pagination.currentPage
    /\ pagination.currentPage <= pagination.totalPages
    /\ pagination.hasPrev = (pagination.currentPage > 1)
    /\ pagination.hasNext = (pagination.currentPage < pagination.totalPages)

\* C26: a successful response to any listing request in flight, whatever its
\* position among the requests sent, is applied: reports and pagination
\* become the data of that response.
C26_AnyResponseApplied ==
    \A i \in 1..Len(listReqs) : \A resp \in ListResponses :
        ListOutcome(resp) = "success" =>
            ENABLED (/\ FetchReportsDone(i, resp)
                     /\ reports' = OrElse(resp.body.reports, <<>>)
                     /\ pagination' = OrElse(resp.body.pagination, DefaultPagination)
                     /\ answered' = <<listReqs[i]>>)

\* all requests are answered and the rows on screen are those of a request
\* that is not the one sent last
C26_Witness ==
    /\ op = "fetchReportsDone"
    /\ listOutcome = "success"
    /\ ~loading
    /\ Len(listReqs) = 0
    /\ Len(reports) # 0
    /\ Len(answered) = 1
    /\ Len(lastReq) = 1
    /\ answered[1] # lastReq[1]
    /\ answered[1].search = searchQuery
    /\ answered[1].page # lastReq[1].page

\* C30: after mount the list view eventually leaves its loading state and
\* shows the rows or the empty state, with or without a stored identity.
C30_LoadingEnds == <>(listMounted /\ ~loading)

----------------------------------------------------------------------------
(* Properties of the detail modal *)

\* a detail request for the selected report is in flight
SelectedInFlight == \E i \in 1..Len(detailReqs) : detailReqs[i] = selectedReportId

\* C15: whenever the modal is closed, selectedReportId and reportDetails are
\* both null, also when a detail response arrives after the close.
C15_ClosedModalHoldsNothing ==
    ~isModalOpen => (selectedReportId = Null /\ reportDetails = Missing)

\* C16: handleView opens the modal with selectedReportId set to the row's id
\* while its request is still unanswered; the open modal shows exactly one of
\* the loading, success and failure views; and neither the failure nor the
\* success view is shown while the fetch for the selected report is in flight.
C16_ModalViews ==
    /\ op = "handleView" =>
          /\ isModalOpen
          /\ selectedReportId \in RowIds
          /\ detailReqs[Len(detailReqs)] = selectedReportId
    /\ isModalOpen =>
          /\ LoadingShown \/ SuccessShown \/ FailureShown
          /\ ~(LoadingShown /\ SuccessShown)
          /\ ~(LoadingShown /\ FailureShown)
          /\ ~(SuccessShown /\ FailureShown)
    /\ (isModalOpen /\ SelectedInFlight) => (~SuccessShown /\ ~FailureShown)

\* C17 (as claimed): a detail request answered with status 404 leaves
\* reportDetails null and raises no failure notification.
C17_DetailNotFoundSilent ==
    (op = "fetchReportDetailsDone" /\ detailOutcome = "notfound") =>
        /\ reportDetails = Missing
        /\ reportToast = "none"

\* C17 (amended): a detail request answered with status 404 leaves
\* reportDetails null and raises the failure notification 'Report Not Found'.
C17_DetailNotFound ==
    (op = "fetchReportDetailsDone" /\ detailOutcome = "notfound") =>
        /\ reportDetails = Missing
        /\ reportToast = "Report Not Found"

\* the open modal shows the failure view after the only detail request was
\* answered with 404
C17_Witness ==
    /\ op = "fetchReportDetailsDone"
    /\ detailOutcome = "notfound"
    /\ FailureShown
    /\ selectedReportId = "r1"
    /\ Len(detailReqs) = 0

\* C24: body overflow is hidden exactly when the modal is open, and the
\* Escape key closes the modal when it is open and changes nothing of the
\* page state when it is closed.
C24_ScrollLockAndEscape ==
    /\ [](bodyOverflow = "hidden" <=> isModalOpen)
    /\ [][op' = "handleEscape" =>
            IF isModalOpen
            THEN /\ ~isModalOpen'
                 /\ selectedReportId' = Null
                 /\ reportDetails' = Missing
            ELSE /\ UNCHANGED modalVars
                 /\ UNCHANGED listData
                 /\ UNCHANGED downloadVars
       ]_vars

\* Escape has closed the modal while its detail request was unanswered and
\* the scroll is restored
C24_Witness ==
    /\ op = "handleEscape"
    /\ ~isModalOpen
    /\ bodyOverflow = "unset"
    /\ ~escapeListener
    /\ Len(detailReqs) = 1
    /\ loadingReportDetails

\* C27: whenever the open modal displays details, they are the details of
\* the selected report.
C27_DetailOfSelectedReport ==
    SuccessShown => reportDetails[1].id = selectedReportId

----------------------------------------------------------------------------
(* Properties of the downloads *)

\* a download of this report is in flight
DownloadInFlight(reportId) ==
    \E i \in 1..Len(downloadReqs) : downloadReqs[i] = reportId

\* C18: the Download button of a row is busy exactly when a download for
\* that row's report is in flight, also when downloads overlap.
C18_BusyPerReport ==
    RowsShown => \A reportId \in RowIds :
                    RowBusy(reportId) <=> DownloadInFlight(reportId)

\* C19: a download answered 2xx hands the browser exactly one file named
\* report-<id>.pdf and raises the success notification; one answered
\* non-2xx, or that threw, hands over no file and raises the failure
\* notification; exactly one of the two notifications is raised.
C19_DownloadOutcome ==
    [][op' = "downloadDone" =>
        \E i \in 1..Len(downloadReqs) :
            /\ downloadReqs' = RemoveAt(downloadReqs, i)
            /\ IF downloadOutcome' = "ok"
               THEN /\ files' = Append(files, <<"report-", downloadReqs[i], ".pdf">>)
                    /\ reportToast' = "Download Started"
               ELSE /\ files' = files
                    /\ reportToast' = "Download Failed"
    ]_vars

\* a download has just failed after an earlier one delivered its file
C19_Witness ==
    /\ op = "downloadDone"
    /\ downloadOutcome = "error"
    /\ reportToast = "Download Failed"
    /\ files = << <<"report-", "r1", ".pdf">> >>
    /\ Len(downloadReqs) = 0

----------------------------------------------------------------------------
(* Properties of the application *)

\* C21: every outcome of every request in flight (listing, detail, download,
\* catalog, submit) is handled by the operation that sent it, and once a
\* request of a kind has been sent and none of that kind is in flight the
\* busy flag of the kind is cleared: loading, loadingReportDetails,
\* isLoading and isSubmitting are false and downloadingId is null.
C21_FailuresContained ==
    /\ \A i \in 1..Len(listReqs) : \A resp \in ListResponses :
          ENABLED FetchReportsDone(i, resp)
    /\ \A i \in 1..Len(detailReqs) : \A resp \in DetailResponses :
          ENABLED FetchReportDetailsDone(i, resp)
    /\ \A i \in 1..Len(downloadReqs) : \A outcome \in DownloadOutcomes :
          ENABLED DownloadDone(i, outcome)
    /\ (submitMounted /\ catalogOutcome = "none") =>
          \A resp \in CatalogResponses : ENABLED FetchItemsDone(resp)
    /\ \A req \in submitReqs : \A outcome \in SubmitResponses :
          ENABLED SubmitDone(req, outcome)
    /\ (Len(lastReq) = 1 /\ Len(listReqs) = 0) => ~loading
    /\ Len(detailReqs) = 0 => ~loadingReportDetails
    /\ Len(downloadReqs) = 0 => downloadingId = Null
    /\ catalogOutcome # "none" => ~isLoading
    /\ submitReqs = {} => ~isSubmitting

\* a detail request has failed with an error status and a download has
\* thrown, nothing is in flight and no busy flag is left set
C21_Witness ==
    /\ op = "downloadDone"
    /\ downloadOutcome = "throw"
    /\ detailOutcome = "error"
    /\ listOutcome = "success"
    /\ Len(listReqs) = 0 /\ Len(detailReqs) = 0 /\ Len(downloadReqs) = 0
    /\ ~loading
    /\ ~loadingReportDetails
    /\ downloadingId = Null

====
